---------------------------- MODULE Spec2Model ----------------------------
(***************************************************************************)
(* A model of src/billiard.py: the Vector algebra, Ball (constructor,      *)
(* calculate_velocity, collision, update) and Window (update and           *)
(* event_handler).                                                         *)
(*                                                                         *)
(* Numbers.  The program computes in Python floats.  The model computes    *)
(* the same expressions exactly, over the rationals: a number is a pair    *)
(* <<n, d>> with d > 0 in lowest terms.  The one irrational quantity, the  *)
(* length of a vector, is carried as its square: a comparison              *)
(* dist(p, q) < s is made as |p - q|^2 < s^2, and the two factors          *)
(* 1/length that a normalised vector contributes to calculate_velocity     *)
(* are applied together as one division by length^2.  Mouse positions are  *)
(* drawn from a set in which every distance is an integer, so a spawned    *)
(* ball's velocity is rational as well.                                    *)
(***************************************************************************)
EXTENDS Integers, Sequences, FiniteSets, TLC

VARIABLES
    balls,      \* WindowVariables.balls: the sequence of Ball objects
    pause,      \* WindowVariables.pause: <<0, 1>> running, <<1, 0>> paused
    press_pos,  \* WindowVariables.press_pos
    ball_size,  \* WindowVariables.ball_size
    button1,    \* whether the left mouse button is held down (pygame's state)
    status,     \* "running", "crashed" (an exception left run()) or "exited"
    ticks,      \* number of unpaused frames so far
    nev,        \* number of input events handled so far
    log,        \* the calls made by the last Window.update() or method application
    pre         \* the collections a single method was applied to, oldest first

vars == <<balls, pause, press_pos, ball_size, button1, status, ticks, nev, log, pre>>

-----------------------------------------------------------------------------
(* Bounds of the model *)

MaxTicks == 1
MaxEvents == 4
MaxApply == 2
MaxHeadOnTicks == 60
MaxConstruct == 2
MaxWheelEvents == 260

(* The display the program opens full screen: any size at least as large  *)
(* as the initial balls need.                                              *)
Width == 1920
Height == 1080

-----------------------------------------------------------------------------
(* Exact arithmetic *)

Abs(n) == IF n < 0 THEN -n ELSE n

RECURSIVE GCD(_, _)
GCD(a, b) == IF b = 0 THEN a ELSE GCD(b, a % b)

Rat(n, d) ==
    LET g == GCD(Abs(n), Abs(d))
        s == IF d < 0 THEN -1 ELSE 1
    IN  <<(s * n) \div g, (s * d) \div g>>

R(n) == <<n, 1>>
Zero == R(0)

RAdd(a, b) ==
    LET g == GCD(a[2], b[2])
    IN  Rat(a[1] * (b[2] \div g) + b[1] * (a[2] \div g), (a[2] \div g) * b[2])
RNeg(a) == <<-a[1], a[2]>>
RSub(a, b) == RAdd(a, RNeg(b))
RMul(a, b) ==
    LET g1 == GCD(Abs(a[1]), b[2])
        g2 == GCD(Abs(b[1]), a[2])
    IN  IF a[1] = 0 \/ b[1] = 0 THEN Zero
        ELSE <<(a[1] \div g1) * (b[1] \div g2), (a[2] \div g2) * (b[2] \div g1)>>
RInv(a) == IF a[1] < 0 THEN <<-a[2], -a[1]>> ELSE <<a[2], a[1]>>
RDiv(a, b) == RMul(a, RInv(b))
RLt(a, b) ==
    LET g == GCD(a[2], b[2])
    IN  a[1] * (b[2] \div g) < b[1] * (a[2] \div g)
RAbs(a) == <<Abs(a[1]), a[2]>>
RSq(a) == RMul(a, a)

(* floor(sqrt(n)) for a natural n *)
RECURSIVE SqrtBetween(_, _, _)
SqrtBetween(n, lo, hi) ==
    IF lo = hi THEN lo
    ELSE LET mid == (lo + hi + 1) \div 2
         IN  IF mid * mid <= n THEN SqrtBetween(n, mid, hi)
             ELSE SqrtBetween(n, lo, mid - 1)

ISqrt(n) == SqrtBetween(n, 0, IF n < 46340 THEN n ELSE 46340)

(* math.dist squared *)
Dist2(x1, y1, x2, y2) == RAdd(RSq(RSub(x1, x2)), RSq(RSub(y1, y2)))

(* dist < s for coordinate differences dx, dy >= 0 and an integer s.  A   *)
(* distance below s has both differences below s, and when one of them is *)
(* 0 the distance is the other: the squares are computed only for the     *)
(* remaining cases.                                                        *)
LengthLess(dx, dy, s) ==
    /\ s > 0
    /\ RLt(dx, R(s))
    /\ RLt(dy, R(s))
    /\ dx = Zero \/ dy = Zero \/ RLt(RAdd(RSq(dx), RSq(dy)), R(s * s))

(* dist((x1, y1), (x2, y2)) < s *)
DistLess(x1, y1, x2, y2, s) == LengthLess(RAbs(RSub(x1, x2)), RAbs(RSub(y1, y2)), s)

-----------------------------------------------------------------------------
(* Vector *)

Vector(x, y) == [x |-> x, y |-> y]

(* Vector.add, Vector.sub, Vector.mul by a Vector (dot product) and by a number *)
VAdd(v, w) == Vector(RAdd(v.x, w.x), RAdd(v.y, w.y))
VSub(v, w) == Vector(RSub(v.x, w.x), RSub(v.y, w.y))
VDot(v, w) == RAdd(RMul(v.x, w.x), RMul(v.y, w.y))
VScale(v, k) == Vector(RMul(v.x, k), RMul(v.y, k))

(* Vector.normalize divides both components by self.length, and Python   *)
(* raises ZeroDivisionError when that is 0: when the two ends are equal.  *)
NormalizeRaises(start_pos, end_pos) == VSub(end_pos, start_pos) = Vector(Zero, Zero)

(* The integer vector (ix, iy) divided by g, with its squared length *)
Shortest(ix, iy, g) ==
    [dir |-> Vector(R(ix \div g), R(iy \div g)),
     len2 |-> R((ix \div g) * (ix \div g) + (iy \div g) * (iy \div g))]

(* The rational vector d scaled by the least common denominator, g *)
Integral(d, g) == Vector(R(d.x[1] * (d.y[2] \div g)), R(d.y[1] * (d.x[2] \div g)))

ShortestOf(v) == Shortest(v.x[1], v.y[1], GCD(Abs(v.x[1]), Abs(v.y[1])))

(* Vector.normalize: (end_pos - start_pos) / length.  The result is kept  *)
(* as dir / sqrt(len2), where dir is the shortest integer vector with the *)
(* direction of d = end_pos - start_pos and len2 its squared length: the  *)
(* same unit vector, written with the smallest numbers.                    *)
NormalizeDiff(d) == ShortestOf(Integral(d, GCD(d.x[2], d.y[2])))

Normalize(start_pos, end_pos) == NormalizeDiff(VSub(end_pos, start_pos))

-----------------------------------------------------------------------------
(* Ball *)

(* cos and sin of an angle, as a unit vector: the angles the program uses *)
AngleDir(deg) ==
    CASE deg = 0 -> Vector(R(1), Zero)
      [] deg = 180 -> Vector(R(-1), Zero)
      [] deg = -90 -> Vector(Zero, R(-1))
      [] deg = 90 -> Vector(Zero, R(1))

(* Ball.__init__ with the direction (cos, sin) of its angle *)
Ball(center, radius, velocity, dir) ==
    [x |-> R(center[1]), y |-> R(center[2]), radius |-> radius, mass |-> radius,
     vector |-> VScale(dir, R(velocity))]

Center(b) == Vector(b.x, b.y)

Tangent(v) == Vector(RNeg(v.y), v.x)

(* Faulty variants of the expression below: with the ball's own mass in   *)
(* place of the other's, and without the tangential term.                  *)
VelocityOwnMass(n, ball, other) ==
    VScale(VAdd(VScale(n.dir,
                       RDiv(RAdd(RMul(VDot(n.dir, ball.vector), R(ball.mass - other.mass)),
                                 VDot(VScale(n.dir, R(2 * ball.mass)), other.vector)),
                            R(ball.mass + other.mass))),
                VScale(Tangent(n.dir), VDot(Tangent(n.dir), ball.vector))),
           RInv(n.len2))

VelocityWithoutTangent(n, ball, other) ==
    VScale(VScale(n.dir,
                  RDiv(RAdd(RMul(VDot(n.dir, ball.vector), R(ball.mass - other.mass)),
                            VDot(VScale(n.dir, R(2 * other.mass)), other.vector)),
                       R(ball.mass + other.mass))),
           RInv(n.len2))

(* The expression of Ball.calculate_velocity for unit_normal =            *)
(* n.dir / sqrt(n.len2) and unit_tangent = Tangent(n.dir) / sqrt(n.len2): *)
(* each term holds two of these factors, so the sum is divided by n.len2. *)
Velocity(n, ball, other) ==
    VScale(VAdd(VScale(n.dir,
                       RDiv(RAdd(RMul(VDot(n.dir, ball.vector), R(ball.mass - other.mass)),
                                 VDot(VScale(n.dir, R(2 * other.mass)), other.vector)),
                            R(ball.mass + other.mass))),
                VScale(Tangent(n.dir), VDot(Tangent(n.dir), ball.vector))),
           RInv(n.len2))

(* Ball.calculate_velocity, defined when the centers differ *)
calculate_velocity(ball, other) ==
    Velocity(Normalize(Center(ball), Center(other)), ball, other)

(* Faulty variants of the test below: with <= for <, and with the sum of  *)
(* the diameters for the sum of the radii.                                 *)
WithinThresholdInclusive(a, b) ==
    \/ DistLess(a.x, a.y, b.x, b.y, a.radius + b.radius)
    \/ Dist2(a.x, a.y, b.x, b.y) = R((a.radius + b.radius) * (a.radius + b.radius))

WithinThresholdDiameters(a, b) ==
    DistLess(a.x, a.y, b.x, b.y, 2 * (a.radius + b.radius))

(* The test of Ball.collision *)
WithinThreshold(a, b) ==
    DistLess(a.x, a.y, b.x, b.y, a.radius + b.radius)

(* A faulty variant of collision below: the second velocity is computed   *)
(* from the first ball's new velocity.                                     *)
CollisionInTurn(a, b) ==
    IF WithinThreshold(a, b)
    THEN IF NormalizeRaises(Center(a), Center(b))
         THEN [raised |-> TRUE, a |-> a, b |-> b]
         ELSE [raised |-> FALSE,
               a |-> [a EXCEPT !.vector = calculate_velocity(a, b)],
               b |-> [b EXCEPT !.vector =
                          calculate_velocity(b, [a EXCEPT !.vector = calculate_velocity(a, b)])]]
    ELSE [raised |-> FALSE, a |-> a, b |-> b]

(* Another faulty variant: the first velocity is computed from the second *)
(* ball's new velocity.                                                    *)
CollisionOtherFirst(a, b) ==
    IF WithinThreshold(a, b)
    THEN IF NormalizeRaises(Center(a), Center(b))
         THEN [raised |-> TRUE, a |-> a, b |-> b]
         ELSE [raised |-> FALSE,
               a |-> [a EXCEPT !.vector =
                          calculate_velocity(a, [b EXCEPT !.vector = calculate_velocity(b, a)])],
               b |-> [b EXCEPT !.vector = calculate_velocity(b, a)]]
    ELSE [raised |-> FALSE, a |-> a, b |-> b]

(* Another faulty variant: the response is applied only to a pair whose   *)
(* balls move toward each other along the line of centers.                 *)
CollisionWhenApproaching(a, b) ==
    IF WithinThreshold(a, b)
    THEN IF NormalizeRaises(Center(a), Center(b))
         THEN [raised |-> TRUE, a |-> a, b |-> b]
         ELSE IF RLt(Zero, VDot(VSub(a.vector, b.vector), VSub(Center(b), Center(a))))
         THEN [raised |-> FALSE,
               a |-> [a EXCEPT !.vector = calculate_velocity(a, b)],
               b |-> [b EXCEPT !.vector = calculate_velocity(b, a)]]
         ELSE [raised |-> FALSE, a |-> a, b |-> b]
    ELSE [raised |-> FALSE, a |-> a, b |-> b]

(* Ball.collision(a, b): the two balls after the call, or the exception *)
collision(a, b) ==
    IF WithinThreshold(a, b)
    THEN IF NormalizeRaises(Center(a), Center(b))
         THEN [raised |-> TRUE, a |-> a, b |-> b]
         ELSE [raised |-> FALSE,
               a |-> [a EXCEPT !.vector = calculate_velocity(a, b)],
               b |-> [b EXCEPT !.vector = calculate_velocity(b, a)]]
    ELSE [raised |-> FALSE, a |-> a, b |-> b]

(* A faulty variant of AxisResult below: on a reflection the ball moves    *)
(* back from where it is, not from the position tangent to the wall.       *)
AxisResultFromPosition(p, v, r, bound, a, hit) ==
    IF hit
    THEN [p |-> RAdd(p, RNeg(v)), v |-> RNeg(v)]
    ELSE [p |-> RAdd(p, v), v |-> v]

(* One axis of Ball.update, given a (the far edge is beyond the bound)    *)
(* and hit (the condition of the if)                                       *)
AxisResult(p, v, r, bound, a, hit) ==
    IF hit
    THEN [p |-> RAdd(RAbs(RSub(R((IF a THEN 1 ELSE 0) * bound), R(r))), RNeg(v)),
          v |-> RNeg(v)]
    ELSE [p |-> RAdd(p, v), v |-> v]

FarEdgeBeyond(p, r, bound) == RLt(R(bound), RAdd(p, R(r)))
NearEdgeBelow(p, r) == RLt(RSub(p, R(r)), Zero)

(* A faulty variant of UpdateAxis below: it reflects when the center, not *)
(* the edge, is beyond a wall.                                             *)
UpdateAxisAtCenter(p, v, r, bound) ==
    AxisResult(p, v, r, bound, FarEdgeBeyond(p, 0, bound),
               FarEdgeBeyond(p, 0, bound) \/ NearEdgeBelow(p, 0))

(* One axis of Ball.update: position p, velocity v, radius r, far bound *)
UpdateAxis(p, v, r, bound) ==
    AxisResult(p, v, r, bound, FarEdgeBeyond(p, r, bound),
               FarEdgeBeyond(p, r, bound) \/ NearEdgeBelow(p, r))

Moved(b, ax, ay) == [b EXCEPT !.x = ax.p, !.y = ay.p, !.vector = Vector(ax.v, ay.v)]

(* Ball.update *)
update(b) ==
    Moved(b, UpdateAxis(b.x, b.vector.x, b.radius, Width),
             UpdateAxis(b.y, b.vector.y, b.radius, Height))

-----------------------------------------------------------------------------
(* Window *)

increment == 1

(* The mouse positions the model's events happen at: on the horizontal    *)
(* line through the center of the first initial ball, so that every drag  *)
(* has an integer length.  The first is that center, the second lies      *)
(* outside that ball but a ball of radius 50 around it overlaps it, and   *)
(* a ball of radius 50 around the third is exactly tangent to it.         *)
Points == {<<500, 500>>, <<560, 500>>, <<600, 500>>}

(* Window.__init__: the four balls of the initial collection *)
InitialBalls ==
    << Ball(<<500, 500>>, 50, 0, AngleDir(0)),
       Ball(<<800, 530>>, 50, 5, AngleDir(180)),
       Ball(<<1500, 500>>, 50, 0, AngleDir(0)),
       Ball(<<1500, 800>>, 50, 5, AngleDir(-90)) >>

(* list(self.pause)[0], as a truth value *)
Paused(p) == p[1] # 0

(* itertools.combinations(range(1, n + 1), 2), in its order *)
RECURSIVE PairsFrom(_, _, _)
PairsFrom(i, j, n) ==
    IF i >= n THEN <<>>
    ELSE IF j > n THEN PairsFrom(i + 1, i + 2, n)
    ELSE <<<<i, j>>>> \o PairsFrom(i, j + 1, n)

combinations(n) == PairsFrom(1, 2, n)

(* The first loop of Window.update: ball.update() unless paused, then     *)
(* ball.draw(), for each ball in order.                                    *)
RECURSIVE DrawLoop(_, _, _, _)
DrawLoop(bs, i, paused, calls) ==
    IF i > Len(bs) THEN [balls |-> bs, log |-> calls]
    ELSE IF paused
    THEN DrawLoop(bs, i + 1, paused, Append(calls, <<"draw", i>>))
    ELSE DrawLoop([bs EXCEPT ![i] = update(bs[i])], i + 1, paused,
                  calls \o << <<"update", i>>, <<"draw", i>> >>)

(* The comprehension of Window.update: ball.collision(other) for each     *)
(* pair, in order; an exception ends it.  Collided continues after the    *)
(* call on pair (i, j) returned r.                                         *)
RECURSIVE CollisionLoop(_, _, _, _)
RECURSIVE Collided(_, _, _, _, _, _, _)
Collided(bs, pairs, k, calls, i, j, r) ==
    IF r.raised THEN [balls |-> bs, log |-> calls, raised |-> TRUE]
    ELSE CollisionLoop([bs EXCEPT ![i] = r.a, ![j] = r.b], pairs, k + 1, calls)

CollisionLoop(bs, pairs, k, calls) ==
    IF k > Len(pairs) THEN [balls |-> bs, log |-> calls, raised |-> FALSE]
    ELSE Collided(bs, pairs, k, Append(calls, <<"collision", pairs[k][1], pairs[k][2]>>),
                  pairs[k][1], pairs[k][2], collision(bs[pairs[k][1]], bs[pairs[k][2]]))

(* A faulty variant of AfterDraw below: every pair is resolved from the    *)
(* velocities the balls had at the start of the collision phase (start),  *)
(* not from those earlier pairs of the phase left.                         *)
RECURSIVE LoopFromStart(_, _, _, _, _)
RECURSIVE ResolvedFromStart(_, _, _, _, _, _, _, _)
ResolvedFromStart(start, bs, pairs, k, calls, i, j, r) ==
    IF r.raised THEN [balls |-> bs, log |-> calls, raised |-> TRUE]
    ELSE LoopFromStart(start,
                       IF WithinThreshold(start[i], start[j])
                       THEN [bs EXCEPT ![i] = r.a, ![j] = r.b] ELSE bs,
                       pairs, k + 1, calls)

LoopFromStart(start, bs, pairs, k, calls) ==
    IF k > Len(pairs) THEN [balls |-> bs, log |-> calls, raised |-> FALSE]
    ELSE ResolvedFromStart(start, bs, pairs, k,
                           Append(calls, <<"collision", pairs[k][1], pairs[k][2]>>),
                           pairs[k][1], pairs[k][2],
                           collision(start[pairs[k][1]], start[pairs[k][2]]))

AfterDrawFromStart(drawn, n, paused) ==
    IF paused THEN [balls |-> drawn.balls, log |-> drawn.log, raised |-> FALSE]
    ELSE LoopFromStart(drawn.balls, drawn.balls, combinations(n), 1, drawn.log)

AfterDraw(drawn, n, paused) ==
    IF paused THEN [balls |-> drawn.balls, log |-> drawn.log, raised |-> FALSE]
    ELSE CollisionLoop(drawn.balls, combinations(n), 1, drawn.log)

(* A faulty variant of WindowUpdate below: it does not look at the pause flag *)
WindowUpdateIgnoringPause(bs, p) == AfterDraw(DrawLoop(bs, 1, FALSE, <<>>), Len(bs), FALSE)

(* A faulty variant of WindowUpdate below: the pairs are resolved before   *)
(* the balls move, so a ball moves by the velocity a collision gave it.    *)
MovedAfter(c, paused) ==
    [balls |-> DrawLoop(c.balls, 1, paused \/ c.raised, <<>>).balls,
     log |-> c.log \o DrawLoop(c.balls, 1, paused \/ c.raised, <<>>).log,
     raised |-> c.raised]

WindowUpdateCollisionsFirst(bs, p) ==
    MovedAfter(AfterDraw([balls |-> bs, log |-> <<>>], Len(bs), Paused(p)), Paused(p))

(* Window.update on the collection bs with pause tuple p *)
WindowUpdate(bs, p) == AfterDraw(DrawLoop(bs, 1, Paused(p), <<>>), Len(bs), Paused(p))

(* A faulty variant of Contains below: the diameter in place of the radius *)
ContainsWithinDiameter(b, pos) == DistLess(b.x, b.y, R(pos[1]), R(pos[2]), 2 * b.radius)

(* dist((ball.x, ball.y), pos) < ball.radius *)
Contains(b, pos) == DistLess(b.x, b.y, R(pos[1]), R(pos[2]), b.radius)

(* The list without its i-th element *)
DropAt(bs, i) == SubSeq(bs, 1, i - 1) \o SubSeq(bs, i + 1, Len(bs))

(* The right-button comprehension of event_handler: filter() walks        *)
(* self.balls by index while balls.remove() shortens the same list.        *)
RECURSIVE RemoveScan(_, _, _)
RemoveScan(bs, i, pos) ==
    IF i > Len(bs) THEN bs
    ELSE IF Contains(bs[i], pos) THEN RemoveScan(DropAt(bs, i), i + 1, pos)
    ELSE RemoveScan(bs, i + 1, pos)

RemoveBalls(bs, pos) == RemoveScan(bs, 1, pos)

(* dist(press_pos, a) // 20 *)
SpawnSpeed(press, a) ==
    ISqrt((press[1] - a[1]) * (press[1] - a[1]) + (press[2] - a[2]) * (press[2] - a[2])) \div 20

UnitOf(dx, dy, d) == IF d = 0 THEN AngleDir(0) ELSE Vector(Rat(dx, d), Rat(dy, d))

(* cos and sin of degrees(atan2(press.y - a.y, press.x - a.x)); atan2(0, 0) is 0 *)
SpawnDir(press, a) ==
    UnitOf(press[1] - a[1], press[2] - a[2],
           ISqrt((press[1] - a[1]) * (press[1] - a[1]) + (press[2] - a[2]) * (press[2] - a[2])))

(* The left-button release of event_handler *)
SpawnBall(bs, press, a, size) ==
    Append(bs, Ball(a, size, SpawnSpeed(press, a), SpawnDir(press, a)))

(* A faulty variant of WheelSize below: without the two limits *)
WheelSizeUnclamped(size, up) == IF up THEN size + increment ELSE size - increment

(* Another faulty variant: a step that would reach a limit is not taken *)
WheelSizeStoppingShort(size, up) ==
    IF up THEN (IF size + increment < 300 THEN size + increment ELSE size)
    ELSE (IF size - increment > 1 THEN size - increment ELSE size)

(* The mouse-wheel branch of event_handler *)
WheelSize(size, up) ==
    IF up THEN (IF size + increment < 300 THEN size + increment ELSE 300)
    ELSE (IF size - increment > 1 THEN size - increment ELSE 1)

-----------------------------------------------------------------------------
(* The program: Window('Pool Game').run() *)

Init ==
    /\ balls = InitialBalls
    /\ pause = <<0, 1>>
    /\ press_pos = <<0, 0>>
    /\ ball_size = 50
    /\ button1 = FALSE
    /\ status = "running"
    /\ ticks = 0
    /\ nev = 0
    /\ log = <<>>
    /\ pre = <<>>

Event == status = "running" /\ nev < MaxEvents /\ nev' = nev + 1

(* pygame.QUIT or K_ESCAPE *)
Quit ==
    /\ Event
    /\ status' = "exited"
    /\ UNCHANGED <<balls, pause, press_pos, ball_size, button1, ticks, log, pre>>

(* K_SPACE *)
KeySpace ==
    /\ Event
    /\ pause' = <<pause[2], pause[1]>>
    /\ UNCHANGED <<balls, press_pos, ball_size, button1, status, ticks, log, pre>>

(* MOUSEWHEEL with event.y > 0 (up) or not *)
MouseWheel(up) ==
    /\ Event
    /\ ball_size' = WheelSize(ball_size, up)
    /\ UNCHANGED <<balls, pause, press_pos, button1, status, ticks, log, pre>>

(* MOUSEBUTTONDOWN, button 1, with the mouse at pos *)
MouseDown1(pos) ==
    /\ Event
    /\ ~button1
    /\ press_pos' = pos
    /\ button1' = TRUE
    /\ UNCHANGED <<balls, pause, ball_size, status, ticks, log, pre>>

(* MOUSEBUTTONDOWN, button 3, with the mouse at pos *)
MouseDown3(pos) ==
    /\ Event
    /\ balls' = RemoveBalls(balls, pos)
    /\ UNCHANGED <<pause, press_pos, ball_size, button1, status, ticks, log, pre>>

(* MOUSEBUTTONUP, button 1, with the mouse at pos *)
MouseUp1(pos) ==
    /\ Event
    /\ button1
    /\ balls' = SpawnBall(balls, press_pos, pos, ball_size)
    /\ button1' = FALSE
    /\ UNCHANGED <<pause, press_pos, ball_size, status, ticks, log, pre>>

(* The program after a Window.update() that returned r *)
FrameDone(r) ==
    /\ balls' = r.balls
    /\ log' = r.log
    /\ status' = IF r.raised THEN "crashed" ELSE "running"

(* One Window.update(); at most limit of them unpaused *)
UpdateFrame(limit) ==
    /\ status = "running"
    /\ Paused(pause) \/ ticks < limit
    /\ FrameDone(WindowUpdate(balls, pause))
    /\ ticks' = IF Paused(pause) THEN ticks ELSE ticks + 1
    /\ UNCHANGED <<pause, press_pos, ball_size, button1, nev, pre>>

Next ==
    \/ Quit
    \/ KeySpace
    \/ \E up \in BOOLEAN : MouseWheel(up)
    \/ \E pos \in Points : MouseDown1(pos)
    \/ \E pos \in Points : MouseDown3(pos)
    \/ \E pos \in Points : MouseUp1(pos)
    \/ UpdateFrame(MaxTicks)

Spec == Init /\ [][Next]_vars

-----------------------------------------------------------------------------
(* Ball.collision as a function: applied to pairs of balls drawn from     *)
(* bounded sets.                                                           *)

(* A ball as it is some time after construction: any velocity *)
BallAt(center, radius, v) ==
    [Ball(center, radius, 0, AngleDir(0)) EXCEPT !.vector = Vector(R(v[1]), R(v[2]))]

(* Second center minus first: coincident, inside, tangent and beyond the  *)
(* threshold for the radii below, along an axis and oblique.               *)
Offsets == {<<0, 0>>, <<4, 0>>, <<5, 0>>, <<3, 4>>, <<1, 2>>, <<0, 6>>, <<7, 0>>}
Radii == {2, 3}
FirstVelocities == {<<1, 0>>, <<2, 1>>, <<0, 0>>}
SecondVelocities == {<<-1, 0>>, <<0, -2>>, <<1, 0>>}

InitOther ==
    /\ pause = <<0, 1>>
    /\ press_pos = <<0, 0>>
    /\ ball_size = 50
    /\ button1 = FALSE
    /\ status = "running"
    /\ ticks = 0
    /\ nev = 0
    /\ log = <<>>
    /\ pre = <<>>

InitCollision ==
    /\ \E off \in Offsets, ra \in Radii, rb \in Radii,
          va \in FirstVelocities, vb \in SecondVelocities :
          balls = << BallAt(<<500, 500>>, ra, va),
                     BallAt(<<500 + off[1], 500 + off[2]>>, rb, vb) >>
    /\ InitOther

CollisionDone(i, j, r) ==
    /\ balls' = IF r.raised THEN balls ELSE [balls EXCEPT ![i] = r.a, ![j] = r.b]
    /\ status' = IF r.raised THEN "crashed" ELSE "running"

(* balls[i].collision(balls[j]) *)
ApplyCollision(i, j) ==
    /\ status = "running"
    /\ Len(pre) < MaxApply
    /\ CollisionDone(i, j, collision(balls[i], balls[j]))
    /\ pre' = Append(pre, balls)
    /\ log' = << <<"collision", i, j>> >>
    /\ UNCHANGED <<pause, press_pos, ball_size, button1, ticks, nev>>

NextCollision == \E o \in {<<1, 2>>, <<2, 1>>} : ApplyCollision(o[1], o[2])

SpecCollision == InitCollision /\ [][NextCollision]_vars

-----------------------------------------------------------------------------
(* Ball.update as a function: applied to a ball drawn from bounded sets.  *)

(* Positions on an axis with far bound b, for the radii below: around     *)
(* both walls and in the middle.                                           *)
AxisPositions(b) == {3, 5, 6, 50, b \div 2, b - 50, b - 6, b - 5, b - 1}
UpdateRadii == {5, 50}
AxisVelocities == {-7, 0, 3}

InitUpdate ==
    /\ \E x \in AxisPositions(Width), y \in {5, Height \div 2, Height - 1},
          r \in UpdateRadii, vx \in AxisVelocities, vy \in AxisVelocities :
          balls = << BallAt(<<x, y>>, r, <<vx, vy>>) >>
    /\ InitOther

(* balls[1].update() *)
ApplyUpdate ==
    /\ status = "running"
    /\ Len(pre) < MaxApply
    /\ balls' = << update(balls[1]) >>
    /\ pre' = Append(pre, balls)
    /\ log' = << <<"update", 1>> >>
    /\ UNCHANGED <<pause, press_pos, ball_size, button1, status, ticks, nev>>

NextUpdate == ApplyUpdate

SpecUpdate == InitUpdate /\ [][NextUpdate]_vars

-----------------------------------------------------------------------------
(* The head-on scenario: two balls of radius 50 on the line y = 500,      *)
(* approaching each other at 5 per tick, alone in the collection.          *)

HeadOnBalls ==
    << Ball(<<400, 500>>, 50, 5, AngleDir(0)),
       Ball(<<520, 500>>, 50, 5, AngleDir(180)) >>

InitHeadOn == balls = HeadOnBalls /\ InitOther

NextHeadOn == KeySpace \/ UpdateFrame(MaxHeadOnTicks)

SpecHeadOn == InitHeadOn /\ [][NextHeadOn]_vars

-----------------------------------------------------------------------------
(* The program with the spawn size anywhere the mouse wheel can have put  *)
(* it, and with mouse positions near the top left corner of the plane:    *)
(* pressing at (300, 100) and releasing at (100, 100) spawns a ball at    *)
(* (100, 100) with speed 200 // 20 = 10 and angle 0.  The positions lie   *)
(* on one horizontal line, 40, 160 and 200 apart.                          *)

SpawnPoints == {<<100, 100>>, <<140, 100>>, <<300, 100>>}
SpawnSizes == {1, 2, 20, 50}

InitSpawn ==
    /\ balls = InitialBalls
    /\ pause = <<0, 1>>
    /\ press_pos = <<0, 0>>
    /\ ball_size \in SpawnSizes
    /\ button1 = FALSE
    /\ status = "running"
    /\ ticks = 0
    /\ nev = 0
    /\ log = <<>>
    /\ pre = <<>>

NextSpawn ==
    \/ KeySpace
    \/ \E up \in BOOLEAN : MouseWheel(up)
    \/ \E pos \in SpawnPoints : MouseDown1(pos)
    \/ \E pos \in SpawnPoints : MouseDown3(pos)
    \/ \E pos \in SpawnPoints : MouseUp1(pos)
    \/ UpdateFrame(MaxTicks)

SpecSpawn == InitSpawn /\ [][NextSpawn]_vars

-----------------------------------------------------------------------------
(* Ball.__init__ as a function: balls constructed from arguments drawn    *)
(* from bounded sets and appended to a collection, as line 163 does with  *)
(* the ball it constructs.                                                 *)

ConstructRadii == {-1, 0, 1, 50}
ConstructSpeeds == {0, 5}
ConstructAngles == {0, 90}

InitConstruct == balls = <<>> /\ InitOther

(* balls.append(Ball(window, center, radius, velocity, angle)): __init__  *)
(* holds no check and no raise, the call returns a ball for any radius    *)
Construct(center, radius, velocity, angle) ==
    /\ status = "running"
    /\ Len(balls) < MaxConstruct
    /\ balls' = Append(balls, Ball(center, radius, velocity, AngleDir(angle)))
    /\ log' = << <<"__init__", radius>> >>
    /\ UNCHANGED <<pause, press_pos, ball_size, button1, status, ticks, nev, pre>>

NextConstruct ==
    \E radius \in ConstructRadii, velocity \in ConstructSpeeds, angle \in ConstructAngles :
        Construct(<<500, 500>>, radius, velocity, angle)

SpecConstruct == InitConstruct /\ [][NextConstruct]_vars

-----------------------------------------------------------------------------
(* The program receiving mouse-wheel events only: enough of them to take  *)
(* the spawn size from its initial 50 to either limit and beyond.          *)

(* MOUSEWHEEL with event.y > 0 (up) or not *)
WheelEvent(up) ==
    /\ status = "running"
    /\ nev < MaxWheelEvents
    /\ nev' = nev + 1
    /\ ball_size' = WheelSize(ball_size, up)
    /\ UNCHANGED <<balls, pause, press_pos, button1, status, ticks, log, pre>>

NextWheel == \E up \in BOOLEAN : WheelEvent(up)

SpecWheel == Init /\ [][NextWheel]_vars

-----------------------------------------------------------------------------
(* Properties *)

Last(seq) == seq[Len(seq)]

(* C1: no error escapes Window.update(): when two balls have the same     *)
(* center at the collision phase the pair is skipped and the tick          *)
(* completes, so the program never ends with an exception.                 *)
C1_NoErrorEscapesUpdate == status # "crashed"

(* The index of the first ball, in collection order, whose disk contains pos *)
FirstContaining(bs, pos) ==
    CHOOSE i \in 1..Len(bs) :
        Contains(bs[i], pos) /\ \A k \in 1..(i - 1) : ~Contains(bs[k], pos)

(* C2: a remove action at a point that some ball contains removes exactly *)
(* one ball, the first in collection order containing the point; all      *)
(* others stay, in their order.                                            *)
C2_RemovesExactlyTheFirst ==
    [][\A pos \in Points :
         (MouseDown3(pos) /\ \E i \in 1..Len(balls) : Contains(balls[i], pos))
             => balls' = DropAt(balls, FirstContaining(balls, pos))]_vars

(* --- Ball.collision and Ball.update as functions ---------------------- *)

(* A method has been applied; Before is the collection it was applied to *)
Applied == Len(pre) > 0
Before == Last(pre)

RLe(a, b) == ~RLt(b, a)

(* Squared distance of the centers of a pair, and squared sum of its radii *)
GapSq(bs) == Dist2(bs[1].x, bs[1].y, bs[2].x, bs[2].y)
SumSq(bs) == R((bs[1].radius + bs[2].radius) * (bs[1].radius + bs[2].radius))

SameVelocities(bs, cs) == \A k \in 1..Len(bs) : bs[k].vector = cs[k].vector

(* The pair moves toward each other along the line of centers *)
Approaching(bs) ==
    RLt(Zero, VDot(VSub(bs[1].vector, bs[2].vector), VSub(Center(bs[2]), Center(bs[1]))))

(* Both velocities are the elastic response to the velocities before *)
Responded ==
    /\ balls[1].vector = calculate_velocity(Before[1], Before[2])
    /\ balls[2].vector = calculate_velocity(Before[2], Before[1])

HitsWall(p, r, bound) == RLt(R(bound), RAdd(p, R(r))) \/ RLt(RSub(p, R(r)), Zero)

(* C6: Ball.update negates the velocity component of an axis if and only  *)
(* if, at the position held before the move, the far edge is strictly     *)
(* beyond the bound or the near edge strictly below 0, each axis on its   *)
(* own, and the move adds the component as it is after that; a ball at    *)
(* x = Width - 1 of radius 5 moving right with y edges inside ends with   *)
(* x-velocity negated and y-velocity unchanged.                            *)
C6_ReflectIffEdgeBeyond ==
    Applied =>
        LET b == Before[1]
            a == balls[1]
            hx == HitsWall(b.x, b.radius, Width)
            hy == HitsWall(b.y, b.radius, Height)
        IN  /\ a.vector.x = IF hx THEN RNeg(b.vector.x) ELSE b.vector.x
            /\ a.vector.y = IF hy THEN RNeg(b.vector.y) ELSE b.vector.y
            /\ RSub(a.x, a.vector.x) \in
                   IF hx THEN {R(b.radius), RAbs(R(Width - b.radius))} ELSE {b.x}
            /\ RSub(a.y, a.vector.y) \in
                   IF hy THEN {R(b.radius), RAbs(R(Height - b.radius))} ELSE {b.y}
            /\ (b.x = R(Width - 1) /\ b.radius = 5 /\ RLt(Zero, b.vector.x) /\ ~hy)
                   => (a.vector.x = RNeg(b.vector.x) /\ a.vector.y = b.vector.y)

(* The ball of the example after one update() *)
C6_ReflectedAtFarWall ==
    /\ Len(pre) = 1
    /\ Before[1].x = R(Width - 1) /\ Before[1].radius = 5
    /\ Before[1].y = R(Height \div 2)
    /\ Before[1].vector = Vector(R(3), R(-7))
    /\ balls[1].vector = Vector(R(-3), R(-7))

Momentum(bs) ==
    VAdd(VScale(bs[1].vector, R(bs[1].mass)), VScale(bs[2].vector, R(bs[2].mass)))

(* Twice the kinetic energy *)
Energy(bs) ==
    RAdd(RMul(R(bs[1].mass), VDot(bs[1].vector, bs[1].vector)),
         RMul(R(bs[2].mass), VDot(bs[2].vector, bs[2].vector)))

(* C7: for two balls with distinct centers, collision() leaves the total  *)
(* momentum m1*v1 + m2*v2 the same on each axis.                           *)
C7_MomentumPreserved ==
    (Applied /\ GapSq(Before) # Zero) => Momentum(balls) = Momentum(Before)

(* An oblique collision of unequal masses that changed both velocities *)
C7_ObliqueUnequalCollision ==
    /\ Len(pre) = 1
    /\ Before[1].mass = 2 /\ Before[2].mass = 3
    /\ Before[2].x = R(501) /\ Before[2].y = R(502)
    /\ balls[1].vector # Before[1].vector
    /\ balls[2].vector # Before[2].vector

(* C8: for two balls with distinct centers, collision() leaves the total  *)
(* kinetic energy, the sum of mass * |velocity|^2, the same.               *)
C8_EnergyPreserved ==
    (Applied /\ GapSq(Before) # Zero) => Energy(balls) = Energy(Before)

(* A collision along the x axis of unequal masses, one ball also moving   *)
(* across the line of centers                                              *)
C8_AxisCollisionWithTangentialMotion ==
    /\ Len(pre) = 1
    /\ Before[1].mass = 3 /\ Before[2].mass = 2
    /\ Before[2].x = R(504) /\ Before[2].y = R(500)
    /\ Before[1].vector = Vector(R(2), R(1))
    /\ Before[2].vector = Vector(R(-1), Zero)
    /\ ~SameVelocities(balls, Before)

(* C9: collision() leaves both velocities unchanged when the distance of  *)
(* the centers is strictly greater than the sum of the radii.              *)
C9_NoOpBeyondThreshold ==
    (Applied /\ RLt(SumSq(Before), GapSq(Before)))
        => (status = "running" /\ SameVelocities(balls, Before))

(* An approaching pair beyond the threshold after collision() *)
C9_ApproachingBeyondThreshold ==
    /\ Applied
    /\ RLt(SumSq(Before), GapSq(Before))
    /\ Approaching(Before)
    /\ SameVelocities(balls, Before)

(* --- The head-on scenario ---------------------------------------------- *)

(* Both balls are where t ticks of free approach from the start put them *)
OnApproach(t) ==
    /\ balls[1].x = R(400 + 5 * t) /\ balls[1].y = R(500)
    /\ balls[2].x = R(520 - 5 * t) /\ balls[2].y = R(500)

HeadOnGap == RSub(balls[2].x, balls[1].x)

Exchanged ==
    /\ balls[1].vector = Vector(R(-5), Zero)
    /\ balls[2].vector = Vector(R(5), Zero)

C4_PausedFramesChangeNothing ==
    [][Paused(pause) =>
         /\ nev' = nev => (balls' = balls /\ status' = status)
         /\ (button1 /\ ~button1')
                => (Len(balls') = Len(balls) + 1 /\ SubSeq(balls', 1, Len(balls)) = balls)
         /\ \A pos \in Points :
                (MouseDown3(pos) /\ \E i \in 1..Len(balls) : Contains(balls[i], pos))
                    => Len(balls') < Len(balls)]_vars

(* Paused, never unpaused for a frame: the last frame drew five balls, so *)
(* one was spawned, and one has been removed since; the second initial    *)
(* ball, which moves 5 per tick, is where it started.                      *)
C4_SpawnedAndRemovedWhilePaused ==
    /\ Paused(pause)
    /\ ticks = 0
    /\ Len(log) = 5
    /\ \A k \in 1..Len(log) : log[k][1] = "draw"
    /\ Len(balls) = 4
    /\ \E k \in 1..Len(balls) : balls[k] = InitialBalls[2]

Calls(kind) == {k \in 1..Len(log) : log[k][1] = kind}

(* C5: in every unpaused tick each ball's update() runs exactly once, all *)
(* of them before any collision(), and collision() is called exactly once *)
(* for each unordered pair of distinct balls of the collection.            *)
C5_EachPairOncePerTick ==
    LET n == Cardinality(Calls("draw"))
    IN  Calls("update") # {} =>
            /\ \A i \in 1..n : Cardinality({k \in Calls("update") : log[k][2] = i}) = 1
            /\ Cardinality(Calls("update")) = n
            /\ \A k \in Calls("update"), l \in Calls("collision") : k < l
            /\ Cardinality(Calls("collision")) = (n * (n - 1)) \div 2
            /\ \A k \in Calls("collision") : log[k][2] # log[k][3]
            /\ \A i \in 1..n, j \in 1..n :
                   i < j => Cardinality({k \in Calls("collision") :
                                            {log[k][2], log[k][3]} = {i, j}}) = 1

(* --- Spawned balls ------------------------------------------------------ *)

EdgesInside(b) == ~HitsWall(b.x, b.radius, Width) /\ ~HitsWall(b.y, b.radius, Height)

(* The ball of the example: spawn((100, 100), 20, 10, 0) *)
ExampleBall == Ball(<<100, 100>>, 20, 10, AngleDir(0))

(* C11: a ball in the collection with its edges inside the plane on both  *)
(* axes, with position p and velocity v, is at exactly p + v after one    *)
(* unpaused tick, whatever the collisions of that tick do to its          *)
(* velocity; releasing the button at (100, 100) after pressing at         *)
(* (300, 100) with size 20 spawns the ball of radius 20, speed 10 and     *)
(* angle 0, and it is at (110, 100) after one tick.                        *)
C11_SpawnedBallMovesByVelocity ==
    [][/\ (MouseUp1(<<100, 100>>) /\ press_pos = <<300, 100>> /\ ball_size = 20)
              => Last(balls') = ExampleBall
       /\ ticks' = ticks + 1 =>
              \A i \in 1..Len(balls) :
                  /\ EdgesInside(balls[i]) =>
                         /\ balls'[i].x = RAdd(balls[i].x, balls[i].vector.x)
                         /\ balls'[i].y = RAdd(balls[i].y, balls[i].vector.y)
                  /\ balls[i] = ExampleBall =>
                         (balls'[i].x = R(110) /\ balls'[i].y = R(100))]_vars

(* After the first tick: the ball of the example is at (110, 100), and a  *)
(* collision in that tick has changed its velocity.                        *)
C11_ExampleBallCollidedAt110 ==
    /\ ticks = 1
    /\ status = "running"
    /\ \E i \in 1..Len(balls) :
           /\ balls[i].x = R(110) /\ balls[i].y = R(100)
           /\ balls[i].radius = 20
           /\ balls[i].vector # ExampleBall.vector

(* --- Removing ----------------------------------------------------------- *)

(* pos lies strictly outside the disk of b: farther from its center than its radius *)
StrictlyOutside(b, pos) ==
    RLt(R(b.radius * b.radius), Dist2(b.x, b.y, R(pos[1]), R(pos[2])))

(* C12: a remove action at a point strictly outside every ball's disk     *)
(* changes nothing: the collection keeps its length, its balls and their  *)
(* order, positions and velocities.                                        *)
C12_RemoveOutsideIsNoOp ==
    [][\A pos \in Points :
         (MouseDown3(pos) /\ \A i \in 1..Len(balls) : StrictlyOutside(balls[i], pos))
             => balls' = balls]_vars

(* The state after one event that changed nothing but the event count:    *)
(* a right-button press (every other event changes pause, ball_size,      *)
(* button1 or status) at a point where it removed no ball.                 *)
C12_RemovedNothing ==
    /\ nev = 1
    /\ status = "running"
    /\ balls = InitialBalls
    /\ pause = <<0, 1>> /\ ball_size = 50 /\ ~button1
    /\ \E pos \in Points : \A i \in 1..Len(balls) : StrictlyOutside(balls[i], pos)

(* --- Radius and mass ---------------------------------------------------- *)

(* C13: in every reachable state every ball of the collection has a       *)
(* strictly positive radius and a mass equal to its radius, and a frame   *)
(* (the update() and collision() calls of Window.update) changes no       *)
(* ball's radius or mass.                                                  *)
C13_RadiusPositiveMassEqual ==
    /\ [](\A i \in 1..Len(balls) : balls[i].radius > 0 /\ balls[i].mass = balls[i].radius)
    /\ [][nev' = nev =>
             /\ Len(balls') = Len(balls)
             /\ \A i \in 1..Len(balls) :
                    /\ balls'[i].radius = balls[i].radius
                    /\ balls'[i].mass = balls[i].mass]_vars

(* After a tick: a spawned ball of radius 2 that moved to x = 102 and     *)
(* gave its velocity to another spawned ball in a collision.               *)
C13_SmallBallCollided ==
    /\ ticks = 1
    /\ status = "running"
    /\ \E i \in 1..Len(balls) :
           /\ balls[i].radius = 2 /\ balls[i].mass = 2
           /\ balls[i].x = R(102)
           /\ balls[i].vector = Vector(Zero, Zero)

(* --- Construction ------------------------------------------------------- *)

(* C14: constructing a ball with a radius of 0 or less fails at           *)
(* construction time, so no such ball ever is in a collection: every      *)
(* constructed ball that entered has a strictly positive radius (and the  *)
(* radius it was constructed with).                                        *)
C14_NonPositiveRadiusRejected ==
    /\ \A i \in 1..Len(balls) : balls[i].radius > 0
    /\ (log # <<>> /\ log[1][2] <= 0) => status = "crashed"

(* --- Walls -------------------------------------------------------------- *)

(* The speed |v| on an axis is at most bound - 2 * radius *)
SlowEnough(v, r, bound) == RLe(RAbs(v), R(bound - 2 * r))

(* C15: a ball with an edge beyond a wall on an axis, and a speed on that *)
(* axis of at most bound - 2 * radius, has its edges on that axis within  *)
(* [0, bound] after the next update(), whichever way its velocity         *)
(* pointed.                                                                *)
C15_BackInsideAfterUpdate ==
    Applied =>
        /\ (HitsWall(Before[1].x, Before[1].radius, Width)
               /\ SlowEnough(Before[1].vector.x, Before[1].radius, Width))
              => ~HitsWall(balls[1].x, balls[1].radius, Width)
        /\ (HitsWall(Before[1].y, Before[1].radius, Height)
               /\ SlowEnough(Before[1].vector.y, Before[1].radius, Height))
              => ~HitsWall(balls[1].y, balls[1].radius, Height)

(* --- Order within and across collisions -------------------------------- *)

(* The pair bs is within the threshold, with distinct centers *)
Overlapping(bs) == GapSq(bs) # Zero /\ RLt(GapSq(bs), SumSq(bs))

(* C16: after one collision() call on an overlapping pair, made as        *)
(* A.collision(B) or as B.collision(A), each ball's velocity is the       *)
(* response computed from the velocities both balls had before the call:  *)
(* the second is not computed from the first one's new velocity, and the  *)
(* two call orders give the same pair of velocities.                       *)
C16_BothFromVelocitiesBefore ==
    (Applied /\ Overlapping(Before)) =>
        /\ log[1] \in {<<"collision", 1, 2>>, <<"collision", 2, 1>>}
        /\ balls[1].vector = calculate_velocity(Before[1], Before[2])
        /\ balls[2].vector = calculate_velocity(Before[2], Before[1])

(* After B.collision(A) on an oblique pair of unequal masses: the         *)
(* velocities A.collision(B) gives, which differ from those of            *)
(* computing A's from B's new velocity.                                    *)
C16_ReverseCallSameVelocities ==
    /\ Len(pre) = 1
    /\ log[1] = <<"collision", 2, 1>>
    /\ Overlapping(Before)
    /\ Before[1].mass # Before[2].mass
    /\ Before[2].x # Before[1].x /\ Before[2].y # Before[1].y
    /\ balls[1].vector = calculate_velocity(Before[1], Before[2])
    /\ balls[1].vector # calculate_velocity(Before[1], balls[2])
    /\ balls[1].vector # Before[1].vector

(* The collection after each ball's update() *)
Updated(bs) == [i \in 1..Len(bs) |-> update(bs[i])]

(* The velocity of ball i of bs after the pair (i, j) is resolved *)
Resolved(bs, i, j) ==
    IF /\ Center(bs[i]) # Center(bs[j])
       /\ DistLess(bs[i].x, bs[i].y, bs[j].x, bs[j].y, bs[i].radius + bs[j].radius)
    THEN calculate_velocity(bs[i], bs[j])
    ELSE bs[i].vector

(* The pairs from the k-th on resolved one after the other, each from the *)
(* velocities its predecessors left                                        *)
RECURSIVE ResolveInOrder(_, _, _)
ResolveInOrder(bs, pairs, k) ==
    IF k > Len(pairs) THEN bs
    ELSE ResolveInOrder([bs EXCEPT ![pairs[k][1]].vector = Resolved(bs, pairs[k][1], pairs[k][2]),
                                   ![pairs[k][2]].vector = Resolved(bs, pairs[k][2], pairs[k][1])],
                        pairs, k + 1)

(* The pairs of 1..n as collection order gives them: (1,2), (1,3), ..., (2,3), ... *)
IndexOrder(n) ==
    [k \in 1..((n * (n - 1)) \div 2) |->
        CHOOSE q \in (1..n) \X (1..n) :
            /\ q[1] < q[2]
            /\ Cardinality({o \in (1..n) \X (1..n) :
                    o[1] < o[2] /\ (o[1] < q[1] \/ (o[1] = q[1] /\ o[2] < q[2]))}) = k - 1]

CollisionCalls(calls) ==
    SelectSeq(calls, LAMBDA c : c[1] = "collision")

(* C17: the collision phase of an unpaused tick that completes resolves   *)
(* the pairs one after the other in collection-index order, each from the *)
(* velocities the earlier resolutions left: a ball within the threshold   *)
(* of two others enters its second resolution with the velocity its       *)
(* first one gave it.                                                      *)
C17_PairsResolvedInSequence ==
    [][(ticks' = ticks + 1 /\ status' = "running") =>
          /\ CollisionCalls(log') =
                 [k \in 1..Len(IndexOrder(Len(balls))) |->
                     <<"collision", IndexOrder(Len(balls))[k][1], IndexOrder(Len(balls))[k][2]>>]
          /\ balls' = ResolveInOrder(Updated(balls), IndexOrder(Len(balls)), 1)]_vars

(* After a tick with spawned balls 5 at 562 and 6 at 598 on the line of   *)
(* ball 1 at 500, each within 100 of the two others, with velocities 0,   *)
(* 2 and -2 after the update: (1,5) gives ball 1 the 2, (1,6) exchanges   *)
(* that 2 for ball 6's -2, and (5,6) exchanges ball 5's 0 for that 2.     *)
(* From the velocities at the start of the phase (5,6) would leave ball 5 *)
(* with -2 and ball 6 with 2.                                              *)
C17_BallInTwoResolutions ==
    /\ ticks = 1
    /\ status = "running"
    /\ Len(balls) = 6
    /\ balls[1].x = R(500) /\ balls[5].x = R(562) /\ balls[6].x = R(598)
    /\ balls[1].vector = Vector(R(-2), Zero)
    /\ balls[5].vector = Vector(R(2), Zero)
    /\ balls[6].vector = Vector(Zero, Zero)

(* --- Repeated collisions ------------------------------------------------ *)

(* The collection the call before the last was applied to *)
BeforeThat == pre[Len(pre) - 1]

(* C18: collision() applied twice in succession to the same overlapping   *)
(* pair, positions unchanged, restores the velocities both balls had      *)
(* before the first call, whether or not the balls approach each other    *)
(* at the second call.                                                     *)
C18_TwiceRestoresVelocities ==
    (Len(pre) >= 2 /\ Overlapping(BeforeThat)) => SameVelocities(balls, BeforeThat)

(* An overlapping pair that approached, separated after the first call    *)
(* and approaches again after the second                                   *)
C18_SeparatingPairTurnedBack ==
    /\ Len(pre) = 2
    /\ Overlapping(BeforeThat)
    /\ Approaching(BeforeThat) /\ ~Approaching(Before) /\ Approaching(balls)
    /\ ~SameVelocities(Before, BeforeThat)
    /\ SameVelocities(balls, BeforeThat)

(* --- Position after a reflection ---------------------------------------- *)

(* One axis of C19: position p and velocity v before, position q after *)
TangentPlacement(p, v, q, r, bound) ==
    2 * r <= bound =>
        /\ RLt(R(bound), RAdd(p, R(r))) => q = RSub(R(bound - r), v)
        /\ RLt(RSub(p, R(r)), Zero) => q = RSub(R(r), v)
        /\ (RLe(RAdd(p, R(r)), R(bound)) /\ RLe(Zero, RSub(p, R(r)))) => q = RAdd(p, v)

(* C19: for a ball with radius at most half the extent of an axis, when   *)
(* update() reflects on that axis the position after the call is the      *)
(* wall-tangent coordinate (radius at the near wall, bound - radius at    *)
(* the far wall) plus the negated velocity component, however far beyond  *)
(* the wall the ball was; when it does not reflect, the position is the   *)
(* old position plus the unchanged component.                              *)
C19_ReflectedFromTangentPosition ==
    Applied =>
        /\ TangentPlacement(Before[1].x, Before[1].vector.x, balls[1].x,
                            Before[1].radius, Width)
        /\ TangentPlacement(Before[1].y, Before[1].vector.y, balls[1].y,
                            Before[1].radius, Height)

(* A ball of radius 5 whose center was 2 beyond the far wall, moving      *)
(* outward at 7: after update() it is at Width - 5 - 7.                   *)
C19_ReturnedFromBeyondFarWall ==
    /\ Applied
    /\ Before[1].radius = 5
    /\ Before[1].x = R(Width + 2)
    /\ Before[1].vector.x = R(7)
    /\ balls[1].x = R(Width - 12)

(* --- The spawn size ----------------------------------------------------- *)

(* C20: after any sequence of mouse-wheel events the spawn size is within *)
(* 1..300; a wheel-up at 300 and a wheel-down at 1 leave it unchanged,    *)
(* and every other wheel event changes it by exactly 1 (up: +1, down: -1). *)
C20_SizeWithinLimits ==
    /\ [](ball_size >= 1 /\ ball_size <= 300)
    /\ [][(WheelEvent(TRUE)
              => ball_size' = (IF ball_size = 300 THEN 300 ELSE ball_size + 1))
          /\ (WheelEvent(FALSE)
              => ball_size' = (IF ball_size = 1 THEN 1 ELSE ball_size - 1))]_vars

(* The size is 300 after 251 events: from 50 that takes 250 effective     *)
(* wheel-ups, so all 251 events were wheel-ups and the last one came at   *)
(* size 300.                                                               *)
C20_WheelUpAtUpperLimit == ball_size = 300 /\ nev = 251

=============================================================================
